---- MODULE Spec2Model ----
(***************************************************************************)
(* Model of atakama/rule_engine.py, the key server's approval rule engine, *)
(* and of Packager.unpack_plugin in atakama/packager.py.                   *)
(*                                                                         *)
(* Spec      : a constructed RuleEngine deciding requests                  *)
(*             (RuleEngine / RuleTree / RuleSet .approve_request)          *)
(*             and clearing quotas (RuleEngine.clear_quota,                *)
(*             RulePlugin.check_quota), one call at a time.                *)
(* BuildSpec : RuleEngine.from_dict on a policy document, to_dict on the    *)
(*             engine it returns, and from_dict / to_dict again on that    *)
(*             output.                                                     *)
(* LoadSpec  : two RuleEngine.from_dict calls on equal documents, in any   *)
(*             interleaving.                                               *)
(* ConcSpec  : one engine used by two callers at the same time.            *)
(* PackSpec  : one Packager.unpack_plugin call on a package file.          *)
(*                                                                         *)
(* Python values are modelled by TLA+ values of one shape per type: a str  *)
(* is a string, a dict with str keys a function on its keys, a list a      *)
(* sequence; where the code tests a value's type the value carries it in a *)
(* field `type`.                                                           *)
(***************************************************************************)
EXTENDS Integers, Sequences, FiniteSets, TLC

VARIABLES
    map,      \* RuleEngine.map: request type -> RuleTree (a list of RuleSets)
    pc,       \* position of the approve_request call in progress
    request,  \* request.request_type of the call in progress
    gi,       \* index of the RuleSet the RuleTree loop is at
    ri,       \* index of the rule the RuleSet loop is at
    calls,    \* rule instances whose approve_request was invoked, in order
    rets,     \* what each of those invocations did (parallel to calls)
    setres,   \* the RuleSet.approve_request calls that returned, in order
    log,      \* records passed to log.error during the call
    result,   \* what RuleEngine.approve_request gave its caller
    info,     \* the document given to from_dict (its entries change in place)
    info0,    \* that document as it was when from_dict was called
    load,     \* 1: from_dict on the caller's document, 2: on to_dict's output
    bpc,      \* position of the from_dict / to_dict call in progress
    ki,       \* from_dict: index of the (rtype, treedef) item the loop is at
    bg,       \* RuleTree.from_list: index of the group the loop is at
    be,       \* RuleSet.from_list: index of the entry the loop is at
    seen,     \* rgen._seen
    rule_seq, \* rgen._rule_seq
    injected, \* the inject_rule_id calls of this load: entry before and after
    rule_map, \* from_dict: rule_map
    ini,      \* RuleTree.from_list: ini
    lst,      \* RuleSet.from_list: lst
    engine,   \* the RuleEngine from_dict returned (its map)
    doc,      \* what to_dict returned
    first,    \* engine and doc of load 1, kept to compare load 2 with
    qpc,      \* position of the clear_quota / check_quota call in progress
    qop,      \* which of the two the caller made
    qprofile, \* the profile the caller passed
    qorder,   \* clear_quota: the order self.map.values() yields the trees in
    qi,       \* clear_quota: how many rules the nested loops have reached
    cleared,  \* rule instances whose clear_quota was invoked, in order
    qrets,    \* what each of those invocations did (parallel to cleared)
    qresult,  \* what the clear_quota / check_quota call gave its caller
    ldoc,     \* the policy layout that every modelled load is given a copy of
    loads,    \* per from_dict call: its copy's entries, its place, its state
    rgens,    \* the RuleIdGenerator objects: _seen and _rule_seq of each
    cmap,     \* RuleEngine.map of the engine that concurrent callers share
    behave,   \* what each (stateless) rule of that engine does when invoked
    callers,  \* per caller: the call it made, its place in it, its result
    path,     \* the package file given to unpack_plugin: what the zip holds
    self_signed, \* unpack_plugin's self_signed argument
    upc,      \* position of the unpack_plugin call in progress
    wi,       \* unpack_plugin: index in wheels of the wheel the loop is at
    tmpdir,   \* the mkdtemp directory: whether it exists, the files in it
    dest_dir, \* indices of the wheels whose contents are in dest_dir
    checks,   \* the verify_certificate / verify_signature calls that returned
    uresult   \* what the unpack_plugin call gave its caller

evalvars == <<map, pc, request, gi, ri, calls, rets, setres, log, result>>

buildvars ==
    <<info, info0, load, bpc, ki, bg, be, seen, rule_seq, injected, rule_map,
      ini, lst, engine, doc, first>>

quotavars == <<qpc, qop, qprofile, qorder, qi, cleared, qrets, qresult>>

loadvars == <<ldoc, loads, rgens>>

concvars == <<cmap, behave, callers>>

packvars == <<path, self_signed, upc, wi, tmpdir, dest_dir, checks, uresult>>

vars == <<evalvars, quotavars, buildvars, loadvars, concvars, packvars>>

----------------------------------------------------------------------------
(* Bounds of the model *)

\* RuleSets per engine, over all its RuleTrees
MaxSets == 2
\* rules per RuleSet
MaxRules == 2
\* size of a policy document: its keys, groups and entries, counted together
MaxNodes == 5
\* entries of a package file besides its "cert" entry and its .sig entries
MaxEntries == 2

----------------------------------------------------------------------------
(* Data *)

\* class RequestType(Enum): the values
RequestType ==
    {"decrypt", "search", "create_profile", "activate_location",
     "create_location", "rename", "secure_export"}

\* The request types that the modelled engines may have a tree for.
Configurable == {"decrypt", "search"}

\* What one invocation of a rule's approve_request can do: return True, False
\* or None, raise an exception derived from Exception, or raise one that is
\* not (KeyboardInterrupt, SystemExit: BaseException only).
Outcome == {"True", "False", "None", "Exception", "BaseException"}

\* A RuleTree built for request type rt with groups of the given sizes; rule
\* instances are distinct objects, named by where they sit.
RuleTree(rt, sizes) ==
    [g \in 1..Len(sizes) |-> [i \in 1..sizes[g] |-> <<rt, g, i>>]]

TreeSizes == UNION {[1..n -> 0..MaxRules] : n \in 0..MaxSets}

\* The engines RuleEngine(rule_map) can hold: a tree for some of the request
\* types, with at most MaxSets RuleSets in the engine.
RuleMaps ==
    UNION {
        {[rt \in D |-> RuleTree(rt, s[rt])] :
            s \in {t \in [D -> TreeSizes] :
                     \A a \in D : \A b \in D \ {a} :
                         Len(t[a]) + Len(t[b]) <= MaxSets}}
        : D \in SUBSET Configurable}

----------------------------------------------------------------------------
(* RuleSet.approve_request, per rule *)

\* What a rule's approve_request hands back when it returns.
Returned == {"True", "False", "None"}

LogsError_ExceptionOnly(o) == o = "Exception"

\* `if res is None: log.error(...)` and `except Exception: log.error(...)`
LogsError(o) == o \in {"None", "Exception"}

LogRecord(rule, o) ==
    [rule |-> rule,
     msg |-> IF o = "None" THEN "unknown request type error in rule"
                           ELSE "error in rule"]

Caught_ValueErrorOnly(o) == FALSE

\* `except Exception as ex`
Caught(o) == o = "Exception"

NotRes_IsFalse(o) == o = "False"

\* `if not res`
NotRes(o) == o \in {"False", "None"}

AfterRule_LogAndContinue(o) ==
    IF o \in Returned
      THEN IF NotRes(o) THEN "return False" ELSE "next rule"
      ELSE IF Caught(o) THEN "next rule" ELSE "raise"

\* The body of `for rule in self`: what the loop does once the rule did o.
AfterRule(o) ==
    IF o \in Returned
      THEN IF NotRes(o) THEN "return False" ELSE "next rule"
      ELSE IF Caught(o) THEN "return False" ELSE "raise"

----------------------------------------------------------------------------
(* RuleTree.approve_request, per RuleSet *)

TreeReturns_First(res) == TRUE

\* `if res: return True`
TreeReturns(res) == res = "True"

\* No unpack_plugin call is modelled.
PackIdle ==
    /\ path = <<>>
    /\ self_signed = FALSE
    /\ upc = "off"
    /\ wi = 0
    /\ tmpdir = "none"
    /\ dest_dir = {}
    /\ checks = <<>>
    /\ uresult = "pending"

\* No set of from_dict calls with generators of their own is modelled.
LoadIdle ==
    /\ ldoc = <<>>
    /\ loads = <<>>
    /\ rgens = <<>>

\* No engine shared by concurrent callers is modelled.
ConcIdle ==
    /\ cmap = <<>>
    /\ behave = <<>>
    /\ callers = <<>>

\* No clear_quota / check_quota call is in progress.
QuotaIdle ==
    /\ qpc = "idle"
    /\ qop = "none"
    /\ qprofile = "none"
    /\ qorder = <<>>
    /\ qi = 0
    /\ cleared = <<>>
    /\ qrets = <<>>
    /\ qresult = "pending"

\* No from_dict / to_dict call is modelled.
BuildIdle ==
    /\ info = <<>>
    /\ info0 = <<>>
    /\ load = 0
    /\ bpc = "off"
    /\ ki = 0
    /\ bg = 0
    /\ be = 0
    /\ seen = <<>>
    /\ rule_seq = 0
    /\ injected = <<>>
    /\ rule_map = <<>>
    /\ ini = <<>>
    /\ lst = <<>>
    /\ engine = <<>>
    /\ doc = <<>>
    /\ first = <<>>

----------------------------------------------------------------------------
(* RuleEngine.approve_request *)

Init ==
    /\ map \in RuleMaps
    /\ pc = "idle"
    /\ request = "none"
    /\ gi = 0
    /\ ri = 0
    /\ calls = <<>>
    /\ rets = <<>>
    /\ setres = <<>>
    /\ log = <<>>
    /\ result = "pending"
    /\ PackIdle
    /\ QuotaIdle
    /\ BuildIdle
    /\ LoadIdle
    /\ ConcIdle

ApproveRequest_EmptyIsNone(rt) ==
    /\ pc = "idle"
    /\ qpc = "idle"
    /\ request' = rt
    /\ IF rt \in DOMAIN map /\ map[rt] # <<>>
         THEN /\ pc' = "tree"
              /\ gi' = 1
              /\ result' = result
         ELSE /\ pc' = "done"
              /\ gi' = gi
              /\ result' = "None"
    /\ UNCHANGED <<map, ri, calls, rets, setres, log>>
    /\ UNCHANGED <<quotavars, buildvars, loadvars, concvars, packvars>>

ApproveRequest_LogsMissingTree(rt) ==
    /\ pc = "idle"
    /\ qpc = "idle"
    /\ request' = rt
    /\ IF rt \in DOMAIN map
         THEN /\ pc' = "tree"
              /\ gi' = 1
              /\ result' = result
              /\ log' = log
         ELSE /\ pc' = "done"
              /\ gi' = gi
              /\ result' = "None"
              /\ log' = Append(log, [rule |-> "engine",
                                     msg |-> "unknown request type"])
    /\ UNCHANGED <<map, ri, calls, rets, setres>>
    /\ UNCHANGED <<quotavars, buildvars, loadvars, concvars, packvars>>

\* tree = self.map.get(request.request_type, None)
\* if tree is None: return None
\* return tree.approve_request(request)
ApproveRequest(rt) ==
    /\ pc = "idle"
    /\ qpc = "idle"
    /\ request' = rt
    /\ IF rt \in DOMAIN map
         THEN /\ pc' = "tree"
              /\ gi' = 1
              /\ result' = result
         ELSE /\ pc' = "done"
              /\ gi' = gi
              /\ result' = "None"
    /\ UNCHANGED <<map, ri, calls, rets, setres, log>>
    /\ UNCHANGED <<quotavars, buildvars, loadvars, concvars, packvars>>

\* RuleTree.approve_request: `for rset in self` reaches the next RuleSet and
\* calls its approve_request, or the loop ends and the tree returns False.
RuleTreeNext ==
    /\ pc = "tree"
    /\ IF gi <= Len(map[request])
         THEN /\ pc' = "set"
              /\ ri' = 1
              /\ result' = result
         ELSE /\ pc' = "done"
              /\ ri' = ri
              /\ result' = "False"
    /\ UNCHANGED <<map, request, gi, calls, rets, setres, log>>
    /\ UNCHANGED <<quotavars, buildvars, loadvars, concvars, packvars>>

\* RuleSet.approve_request returns res to RuleTree.approve_request, which
\* returns True (and so does the engine) or goes on to the next RuleSet.
SetReturns(res) ==
    /\ setres' = Append(setres, [set |-> gi, res |-> res])
    /\ IF TreeReturns(res)
         THEN /\ pc' = "done"
              /\ gi' = gi
              /\ result' = "True"
         ELSE /\ pc' = "tree"
              /\ gi' = gi + 1
              /\ result' = result

\* RuleSet.approve_request: one pass of `for rule in self`, the rule doing o.
RuleSetCall(o) ==
    /\ pc = "set"
    /\ ri <= Len(map[request][gi])
    /\ LET rule == map[request][gi][ri] IN
        /\ calls' = Append(calls, rule)
        /\ rets' = Append(rets, o)
        /\ log' = IF LogsError(o) THEN Append(log, LogRecord(rule, o)) ELSE log
    /\ CASE AfterRule(o) = "next rule" ->
              /\ ri' = ri + 1
              /\ UNCHANGED <<pc, gi, setres, result>>
         [] AfterRule(o) = "return False" ->
              /\ SetReturns("False")
              /\ ri' = ri
         [] AfterRule(o) = "raise" ->
              \* nothing up the stack catches it: the caller gets it
              /\ pc' = "done"
              /\ result' = "raised"
              /\ UNCHANGED <<gi, ri, setres>>
    /\ UNCHANGED <<map, request>>
    /\ UNCHANGED <<quotavars, buildvars, loadvars, concvars, packvars>>

\* RuleSet.approve_request: the loop ends, `return True`.
RuleSetTrue ==
    /\ pc = "set"
    /\ ri > Len(map[request][gi])
    /\ SetReturns("True")
    /\ UNCHANGED <<map, request, ri, calls, rets, log>>
    /\ UNCHANGED <<quotavars, buildvars, loadvars, concvars, packvars>>

\* The caller has its answer; the engine is ready for the next request.
Return ==
    /\ pc = "done"
    /\ pc' = "idle"
    /\ request' = "none"
    /\ gi' = 0
    /\ ri' = 0
    /\ calls' = <<>>
    /\ rets' = <<>>
    /\ setres' = <<>>
    /\ log' = <<>>
    /\ result' = "pending"
    /\ UNCHANGED map
    /\ UNCHANGED <<quotavars, buildvars, loadvars, concvars, packvars>>

----------------------------------------------------------------------------
(* RuleEngine.clear_quota, RulePlugin.check_quota *)

\* The profiles a caller may pass.
Profiles == {"alice", "bob"}

\* What one invocation of a rule's clear_quota can do: return (the default
\* does nothing and returns None), raise an exception derived from
\* Exception, or raise one that is not.
QuotaOutcome == {"None", "Exception", "BaseException"}

\* The rule instances of an engine.
AllRules(m) ==
    UNION {UNION {{m[rt][g][i] : i \in 1..Len(m[rt][g])}
                  : g \in 1..Len(m[rt])}
           : rt \in DOMAIN m}

\* The orders self.map.values() can yield the trees in: a dict yields them
\* in the order its keys were inserted, which is the constructor's caller's.
Orders(m) ==
    {o \in [1..Cardinality(DOMAIN m) -> DOMAIN m] :
        \A a \in DOMAIN o : \A b \in DOMAIN o : a # b => o[a] # o[b]}

RECURSIVE Flatten(_)
\* The items that two nested `for` loops over a list of lists reach, in order.
Flatten(lists) ==
    IF lists = <<>> THEN <<>> ELSE Head(lists) \o Flatten(Tail(lists))

RulesInOrder_FirstTreeOnly(m, order) ==
    IF order = <<>> THEN <<>> ELSE Flatten(m[order[1]])

\* for rt in self.map.values(): for rs in rt: for rule in rs: the rules the
\* loops of clear_quota reach, in order.
RulesInOrder(m, order) ==
    Flatten([k \in 1..Len(order) |-> Flatten(m[order[k]])])

ClearPropagates_ExceptionCaught(o) == o = "BaseException"

\* clear_quota has no try: whatever rule.clear_quota raises leaves the loops
\* and reaches the caller.
ClearPropagates(o) == o # "None"

\* RulePlugin.check_quota: the body is the docstring alone, so the call
\* returns None.
RulePluginCheckQuota(profile) == "None"

\* RuleEngine.clear_quota(profile) is called.
ClearQuota(profile) ==
    /\ pc = "idle"
    /\ qpc = "idle"
    /\ qop' = "clear_quota"
    /\ qprofile' = profile
    /\ qorder' \in Orders(map)
    /\ qi' = 0
    /\ qpc' = "clear"
    /\ UNCHANGED <<cleared, qrets, qresult>>
    /\ UNCHANGED <<evalvars, buildvars, loadvars, concvars, packvars>>

\* rule.clear_quota(profile) on the next rule the loops reach, the rule
\* doing o.
ClearRule(o) ==
    /\ qpc = "clear"
    /\ qi < Len(RulesInOrder(map, qorder))
    /\ cleared' = Append(cleared,
                     [rule |-> RulesInOrder(map, qorder)[qi + 1],
                      profile |-> qprofile])
    /\ qrets' = Append(qrets, o)
    /\ qi' = qi + 1
    /\ IF ClearPropagates(o)
         THEN /\ qpc' = "done"
              /\ qresult' = "raised"
         ELSE UNCHANGED <<qpc, qresult>>
    /\ UNCHANGED <<qop, qprofile, qorder>>
    /\ UNCHANGED <<evalvars, buildvars, loadvars, concvars, packvars>>

\* The loops of clear_quota end; the call returns (None).
ClearEnd ==
    /\ qpc = "clear"
    /\ qi >= Len(RulesInOrder(map, qorder))
    /\ qpc' = "done"
    /\ qresult' = "None"
    /\ UNCHANGED <<qop, qprofile, qorder, qi, cleared, qrets>>
    /\ UNCHANGED <<evalvars, buildvars, loadvars, concvars, packvars>>

\* rule.check_quota(profile) on a rule whose class does not override it.
CheckQuota(rule, profile) ==
    /\ pc = "idle"
    /\ qpc = "idle"
    /\ rule \in AllRules(map)
    /\ qop' = "check_quota"
    /\ qprofile' = profile
    /\ qresult' = RulePluginCheckQuota(profile)
    /\ qpc' = "done"
    /\ UNCHANGED <<qorder, qi, cleared, qrets>>
    /\ UNCHANGED <<evalvars, buildvars, loadvars, concvars, packvars>>

\* The caller has its answer.
QuotaReturn ==
    /\ qpc = "done"
    /\ qpc' = "idle"
    /\ qop' = "none"
    /\ qprofile' = "none"
    /\ qorder' = <<>>
    /\ qi' = 0
    /\ cleared' = <<>>
    /\ qrets' = <<>>
    /\ qresult' = "pending"
    /\ UNCHANGED <<evalvars, buildvars, loadvars, concvars, packvars>>

Next ==
    \/ \E rt \in RequestType : ApproveRequest(rt)
    \/ RuleTreeNext
    \/ \E o \in Outcome : RuleSetCall(o)
    \/ RuleSetTrue
    \/ Return
    \/ \E p \in Profiles : ClearQuota(p)
    \/ \E o \in QuotaOutcome : ClearRule(o)
    \/ ClearEnd
    \/ \E p \in Profiles : \E r \in AllRules(map) : CheckQuota(r, p)
    \/ QuotaReturn

Spec == Init /\ [][Next]_vars

----------------------------------------------------------------------------
(* Python values of a policy document *)

Dict(d) == [type |-> "dict", d |-> d]

List(items) == [type |-> "list", items |-> items]

\* A value that is neither a dict nor a list.
Str == [type |-> "str"]

EmptyDict == [k \in {} |-> ""]

\* d[k] = v
SetItem(d, k, v) == [x \in DOMAIN d \cup {k} |-> IF x = k THEN v ELSE d[x]]

\* del d[k]
DelItem(d, k) == [x \in DOMAIN d \ {k} |-> d[x]]

----------------------------------------------------------------------------
(* RuleIdGenerator *)

\* The keys an entry of the modelled documents can have, as sort_keys
\* orders them.
SortedKeys == <<"param", "rule", "rule_id">>

RECURSIVE JsonItems(_, _)
JsonItems(d, i) ==
    IF i > Len(SortedKeys) THEN ""
    ELSE LET k == SortedKeys[i]
             rest == JsonItems(d, i + 1)
         IN  IF k \in DOMAIN d
               THEN "\"" \o k \o "\":\"" \o d[k] \o "\""
                        \o (IF rest = "" THEN "" ELSE "," \o rest)
               ELSE rest

\* json.dumps(ent, sort_keys=True, separators=(",", ":"))
JsonDumps(d) == "{" \o JsonItems(d, 1) \o "}"

\* hashlib.md5(text).hexdigest(): a function of the text; distinct texts of
\* the model get distinct digests.
Md5Hex(text) == "md5(" \o text \o ")"

\* ent.get("rule_id") is truthy
HasRuleId(ent) == "rule_id" \in DOMAIN ent /\ ent["rule_id"] # ""

\* self._seen[rule_id] += 1, on a defaultdict(lambda: 0)
Count(sn, rule_id) ==
    SetItem(sn, rule_id, IF rule_id \in DOMAIN sn THEN sn[rule_id] + 1 ELSE 1)

InjectRuleId_Overwrite(ent, sn, seq) ==
    LET seq1 == seq + 1
        ent_hash == Md5Hex(JsonDumps(ent))
        new_id == IF ent_hash \in DOMAIN sn
                    THEN ent_hash \o "." \o ToString(seq1)
                    ELSE ent_hash
    IN  [ent |-> SetItem(ent, "rule_id", new_id),
         seen |-> Count(sn, new_id),
         rule_seq |-> seq1]

InjectRuleId_PerDigestCounter(ent, sn, seq) ==
    LET seq1 == seq + 1
        ent_hash == Md5Hex(JsonDumps(ent))
        new_id == IF ent_hash \in DOMAIN sn
                    THEN ent_hash \o "." \o ToString(sn[ent_hash])
                    ELSE ent_hash
        rule_id == IF HasRuleId(ent) THEN ent["rule_id"] ELSE new_id
    IN  [ent |-> IF HasRuleId(ent) THEN ent ELSE SetItem(ent, "rule_id", new_id),
         seen |-> Count(sn, IF HasRuleId(ent) THEN rule_id ELSE ent_hash),
         rule_seq |-> seq1]

InjectRuleId_NoAssign(ent, sn, seq) ==
    LET seq1 == seq + 1
        ent_hash == Md5Hex(JsonDumps(ent))
        rule_id == IF HasRuleId(ent) THEN ent["rule_id"] ELSE ent_hash
    IN  [ent |-> ent, seen |-> Count(sn, rule_id), rule_seq |-> seq1]

InjectRuleId_AlwaysSequence(ent, sn, seq) ==
    LET seq1 == seq + 1
        new_id == Md5Hex(JsonDumps(ent)) \o "." \o ToString(seq1)
        rule_id == IF HasRuleId(ent) THEN ent["rule_id"] ELSE new_id
    IN  [ent |-> IF HasRuleId(ent) THEN ent ELSE SetItem(ent, "rule_id", new_id),
         seen |-> Count(sn, rule_id),
         rule_seq |-> seq1]

\* RuleIdGenerator.inject_rule_id(ent), with self._seen = sn and
\* self._rule_seq = seq: the entry, _seen and _rule_seq after the call.
InjectRuleId(ent, sn, seq) ==
    LET seq1 == seq + 1
        ent_hash == Md5Hex(JsonDumps(ent))
        new_id == IF ent_hash \in DOMAIN sn
                    THEN ent_hash \o "." \o ToString(seq1)
                    ELSE ent_hash
        rule_id == IF HasRuleId(ent) THEN ent["rule_id"] ELSE new_id
    IN  [ent |-> IF HasRuleId(ent) THEN ent ELSE SetItem(ent, "rule_id", new_id),
         seen |-> Count(sn, rule_id),
         rule_seq |-> seq1]

----------------------------------------------------------------------------
(* RulePlugin.from_dict / to_dict *)

\* Plugin.get_by_name: the registered plugin names and the plugin base class
\* each derives from ("yo" is the DetectorPlugin of tests/test_pluginlib.py).
Registry ==
    [n \in {"a", "b", "yo"} |->
        IF n = "yo" THEN "DetectorPlugin" ELSE "RulePlugin"]

\* Plugin.__init__(args): the instance keeps the dict it was given.
Plugin(pname, args) == [name |-> pname, args |-> args]

RulePluginFromDict_NoInstanceCheck(data) ==
    IF data.type # "dict" THEN [raised |-> TRUE, data |-> data]
    ELSE IF "rule" \notin DOMAIN data.d THEN [raised |-> TRUE, data |-> data]
    ELSE LET pname == data.d["rule"]
             args == DelItem(data.d, "rule")
         IN  IF pname \notin DOMAIN Registry
               THEN [raised |-> TRUE, data |-> Dict(args)]
             ELSE [raised |-> FALSE, data |-> Dict(args),
                   plugin |-> Plugin(pname, args)]

\* RulePlugin.from_dict(data): whether it raised, data after the call (the
\* caller's object) and the instance returned.
RulePluginFromDict(data) ==
    IF data.type # "dict" THEN [raised |-> TRUE, data |-> data]
    ELSE IF "rule" \notin DOMAIN data.d THEN [raised |-> TRUE, data |-> data]
    ELSE LET pname == data.d["rule"]
             args == DelItem(data.d, "rule")
         IN  IF pname \notin DOMAIN Registry
               THEN [raised |-> TRUE, data |-> Dict(args)]
             ELSE IF Registry[pname] # "RulePlugin"
               THEN [raised |-> TRUE, data |-> Dict(args)]
             ELSE [raised |-> FALSE, data |-> Dict(args),
                   plugin |-> Plugin(pname, args)]

RulePluginToDict_DropsRuleId(p) ==
    SetItem(DelItem(p.args, "rule_id"), "rule", p.name)

\* RulePlugin.to_dict
RulePluginToDict(p) == SetItem(p.args, "rule", p.name)

\* RuleSet.to_list
RuleSetToList(rs) == List([i \in 1..Len(rs) |-> Dict(RulePluginToDict(rs[i]))])

\* RuleTree.to_list
RuleTreeToList(rt) == [g \in 1..Len(rt) |-> RuleSetToList(rt[g])]

\* RuleEngine.to_dict; a dict with ordered items is a sequence of them.
RuleEngineToDict(m) ==
    [k \in 1..Len(m) |-> [key |-> m[k].key, tree |-> RuleTreeToList(m[k].tree)]]

\* rule_map[rtype] = tree
MapSet(m, rtype, tree) ==
    IF \E k \in 1..Len(m) : m[k].key = rtype
      THEN [k \in 1..Len(m) |->
               IF m[k].key = rtype THEN [key |-> rtype, tree |-> tree] ELSE m[k]]
      ELSE Append(m, [key |-> rtype, tree |-> tree])

----------------------------------------------------------------------------
(* The documents from_dict is given *)

\* the rule_id inject_rule_id gives {"rule": "a"} when it is the first
SavedId == Md5Hex(JsonDumps([rule |-> "a"]))

Entries ==
    {Dict([rule |-> "a"]),
     Dict([rule |-> "a", rule_id |-> ""]),
     Dict([rule |-> "a", rule_id |-> "x"]),
     Dict([rule |-> "a", rule_id |-> SavedId]),
     Dict([rule |-> "b", param |-> "1"]),
     Dict([param |-> "1"]),
     Dict([rule |-> "missing"]),
     Dict([rule |-> "yo"]),
     Str}

Keys == {"decrypt", "search", "bogus"}

\* The shape of a group: the number of its entries, or NotAList.
NotAList == 0 - 1

\* A document counts one node per key, per group and per entry.
GroupNodes(size) == IF size = NotAList THEN 1 ELSE 1 + size

\* The shapes of the tree definitions of n nodes: the shapes of their groups.
RECURSIVE TreeShapesOf(_)
TreeShapesOf(n) ==
    IF n = 0 THEN {<<>>}
    ELSE UNION {{<<size>> \o t : t \in TreeShapesOf(n - GroupNodes(size))}
                : size \in NotAList..(n - 1)}

\* The shapes of the documents of at most n nodes with keys among ks.
RECURSIVE DocShapesUpTo(_, _)
DocShapesUpTo(n, ks) ==
    {<<>>} \cup
    UNION {{<<[key |-> k, tree |-> t]>> \o rest :
                t \in TreeShapesOf(m), rest \in DocShapesUpTo(n - 1 - m, ks \ {k})}
           : k \in ks, m \in 0..(n - 1)}

DocShapes == DocShapesUpTo(MaxNodes, Keys)

RECURSIVE EntriesUpTo(_, _)
\* The number of entries in the first g groups of a tree shape.
EntriesUpTo(t, g) ==
    IF g = 0 THEN 0
    ELSE EntriesUpTo(t, g - 1) + (IF t[g] = NotAList THEN 0 ELSE t[g])

RECURSIVE EntriesBefore(_, _)
\* The number of entries in the first i trees of a document shape.
EntriesBefore(sh, i) ==
    IF i = 0 THEN 0
    ELSE EntriesBefore(sh, i - 1) + EntriesUpTo(sh[i].tree, Len(sh[i].tree))

\* The document of shape sh whose entries are, in reading order, es.
Document(sh, es) ==
    [i \in 1..Len(sh) |->
        [key |-> sh[i].key,
         tree |-> [g \in 1..Len(sh[i].tree) |->
             IF sh[i].tree[g] = NotAList
               THEN Dict(EmptyDict)
               ELSE List([e \in 1..sh[i].tree[g] |->
                       es[EntriesBefore(sh, i - 1)
                            + EntriesUpTo(sh[i].tree, g - 1) + e]])]]]

\* The documents of at most MaxNodes nodes.
IsDoc(d) ==
    \E sh \in DocShapes :
        \E es \in [1..EntriesBefore(sh, Len(sh)) -> Entries] :
            d = Document(sh, es)

----------------------------------------------------------------------------
(* RuleEngine.from_dict and to_dict *)

\* No approve_request call is modelled.
EvalIdle ==
    /\ map = <<>>
    /\ pc = "off"
    /\ request = "none"
    /\ gi = 0
    /\ ri = 0
    /\ calls = <<>>
    /\ rets = <<>>
    /\ setres = <<>>
    /\ log = <<>>
    /\ result = "pending"

BuildInit ==
    /\ EvalIdle
    /\ PackIdle
    /\ QuotaIdle
    /\ LoadIdle
    /\ ConcIdle
    /\ IsDoc(info)
    /\ info0 = info
    /\ load = 1
    /\ bpc = "call"
    /\ ki = 0
    /\ bg = 0
    /\ be = 0
    /\ seen = EmptyDict
    /\ rule_seq = 0
    /\ injected = <<>>
    /\ rule_map = <<>>
    /\ ini = <<>>
    /\ lst = <<>>
    /\ engine = <<>>
    /\ doc = <<>>
    /\ first = <<>>

\* rgen = RuleIdGenerator(); rule_map = {}
FromDict ==
    /\ bpc = "call"
    /\ seen' = EmptyDict
    /\ rule_seq' = 0
    /\ injected' = <<>>
    /\ rule_map' = <<>>
    /\ ki' = 1
    /\ bpc' = "rtype"
    /\ UNCHANGED <<info, info0, load, bg, be, ini, lst, engine, doc, first>>
    /\ UNCHANGED <<evalvars, quotavars, loadvars, concvars, packvars>>

\* `for rtype, treedef in info.items()`: the loop ends and cls(rule_map) is
\* returned, or RequestType(rtype) raises ValueError, or
\* RuleTree.from_list(treedef, rgen) is entered.
ForRtype ==
    /\ bpc = "rtype"
    /\ IF ki > Len(info)
         THEN /\ engine' = rule_map
              /\ bpc' = "built"
              /\ UNCHANGED <<ini, bg>>
         ELSE IF info[ki].key \notin RequestType
         THEN /\ bpc' = "failed"
              /\ UNCHANGED <<engine, ini, bg>>
         ELSE /\ ini' = <<>>
              /\ bg' = 1
              /\ bpc' = "tree"
              /\ UNCHANGED engine
    /\ UNCHANGED <<info, info0, load, ki, be, seen, rule_seq, injected,
                   rule_map, lst, doc, first>>
    /\ UNCHANGED <<evalvars, quotavars, loadvars, concvars, packvars>>

\* RuleTree.from_list, `for ent in ruledefs`: the loop ends, RuleTree(ini) is
\* returned and from_dict stores it, or RuleSet.from_list(ent, rgen) is
\* entered (lst = []) and its assert passes or fails.
RuleTreeFromList ==
    /\ bpc = "tree"
    /\ IF bg > Len(info[ki].tree)
         THEN /\ rule_map' = MapSet(rule_map, info[ki].key, ini)
              /\ ki' = ki + 1
              /\ bpc' = "rtype"
              /\ UNCHANGED <<lst, be>>
         ELSE IF info[ki].tree[bg].type # "list"
         THEN /\ bpc' = "failed"
              /\ UNCHANGED <<rule_map, ki, lst, be>>
         ELSE /\ lst' = <<>>
              /\ be' = 1
              /\ bpc' = "rset"
              /\ UNCHANGED <<rule_map, ki>>
    /\ UNCHANGED <<info, info0, load, bg, seen, rule_seq, injected, ini,
                   engine, doc, first>>
    /\ UNCHANGED <<evalvars, quotavars, loadvars, concvars, packvars>>

\* RuleSet.from_list, `for ent in ruledata`: the loop ends, RuleSet(lst) is
\* returned and RuleTree.from_list appends it to ini.
RuleSetFromListEnd ==
    /\ bpc = "rset"
    /\ be > Len(info[ki].tree[bg].items)
    /\ ini' = Append(ini, lst)
    /\ bg' = bg + 1
    /\ bpc' = "tree"
    /\ UNCHANGED <<info, info0, load, ki, be, seen, rule_seq, injected,
                   rule_map, lst, engine, doc, first>>
    /\ UNCHANGED <<evalvars, quotavars, loadvars, concvars, packvars>>

\* RuleSet.from_list: rgen.inject_rule_id(ent). On something that is not a
\* dict, ent.get raises AttributeError after _rule_seq was raised.
Inject ==
    /\ bpc = "rset"
    /\ be <= Len(info[ki].tree[bg].items)
    /\ LET ent == info[ki].tree[bg].items[be] IN
         IF ent.type # "dict"
           THEN /\ rule_seq' = rule_seq + 1
                /\ bpc' = "failed"
                /\ UNCHANGED <<info, seen, injected>>
           ELSE LET r == InjectRuleId(ent.d, seen, rule_seq) IN
                /\ info' = [info EXCEPT ![ki].tree[bg].items[be] = Dict(r.ent)]
                /\ seen' = r.seen
                /\ rule_seq' = r.rule_seq
                /\ injected' = Append(injected,
                       [before |-> ent.d, after |-> r.ent, seq |-> r.rule_seq])
                /\ bpc' = "plugin"
    /\ UNCHANGED <<info0, load, ki, bg, be, rule_map, ini, lst, engine, doc,
                   first>>
    /\ UNCHANGED <<evalvars, quotavars, loadvars, concvars, packvars>>

\* RuleSet.from_list: lst.append(RulePlugin.from_dict(ent))
Construct ==
    /\ bpc = "plugin"
    /\ LET r == RulePluginFromDict(info[ki].tree[bg].items[be]) IN
         /\ info' = [info EXCEPT ![ki].tree[bg].items[be] = r.data]
         /\ IF r.raised
              THEN /\ bpc' = "failed"
                   /\ UNCHANGED <<lst, be>>
              ELSE /\ lst' = Append(lst, r.plugin)
                   /\ be' = be + 1
                   /\ bpc' = "rset"
    /\ UNCHANGED <<info0, load, ki, bg, seen, rule_seq, injected, rule_map,
                   ini, engine, doc, first>>
    /\ UNCHANGED <<evalvars, quotavars, loadvars, concvars, packvars>>

\* engine.to_dict()
ToDict ==
    /\ bpc = "built"
    /\ doc' = RuleEngineToDict(engine)
    /\ bpc' = "dumped"
    /\ UNCHANGED <<info, info0, load, ki, bg, be, seen, rule_seq, injected,
                   rule_map, ini, lst, engine, first>>
    /\ UNCHANGED <<evalvars, quotavars, loadvars, concvars, packvars>>

\* The caller keeps the first engine and its document and gives the document
\* to RuleEngine.from_dict.
FromDictAgain ==
    /\ bpc = "dumped"
    /\ load = 1
    /\ first' = [engine |-> engine, doc |-> doc]
    /\ info' = doc
    /\ info0' = doc
    /\ load' = 2
    /\ bpc' = "call"
    /\ engine' = <<>>
    /\ doc' = <<>>
    /\ injected' = <<>>
    /\ UNCHANGED <<ki, bg, be, seen, rule_seq, rule_map, ini, lst>>
    /\ UNCHANGED <<evalvars, quotavars, loadvars, concvars, packvars>>

BuildNext ==
    \/ FromDict
    \/ ForRtype
    \/ RuleTreeFromList
    \/ RuleSetFromListEnd
    \/ Inject
    \/ Construct
    \/ ToDict
    \/ FromDictAgain

BuildSpec == BuildInit /\ [][BuildNext]_vars

----------------------------------------------------------------------------
(* Properties of approve_request, checked under Spec *)

Configured == request \in DOMAIN map

\* The invocations, by place in calls, made on rules of RuleSet g.
CallsIn(g) == {j \in 1..Len(calls) : calls[j][2] = g}

\* RuleSet g returned res during the call in progress.
SetGave(g, res) == \E k \in 1..Len(setres) : setres[k] = [set |-> g, res |-> res]

\* Every rule of RuleSet g was invoked and returned True.
AllApprove(g) ==
    \A i \in 1..Len(map[request][g]) :
        \E j \in 1..Len(calls) : calls[j] = map[request][g][i] /\ rets[j] = "True"

\* The RuleSet.approve_request calls return True exactly when every member
\* returned True (an empty RuleSet included).
SetTrueIffAllApprove ==
    \A k \in 1..Len(setres) :
        (setres[k].res = "True") <=> AllApprove(setres[k].set)

\* C1, as stated: a RuleSet returns True exactly when every member rule
\* returns a truthy verdict, and a member that returns False, returns None or
\* raises any exception makes the RuleSet return False.
C1_AnyFailureReturnsFalse ==
    /\ SetTrueIffAllApprove
    /\ \A j \in 1..Len(calls) :
           rets[j] # "True" => SetGave(calls[j][2], "False")

\* C1, amended: a RuleSet returns True exactly when every member rule returns
\* a truthy verdict (so an empty RuleSet returns True); a member that returns
\* False, returns None or raises an exception derived from Exception makes
\* the RuleSet return False; an exception that is not derived from Exception
\* leaves the RuleSet without a return value and reaches the caller.
C1_RuleSetVerdict ==
    /\ SetTrueIffAllApprove
    /\ \A j \in 1..Len(calls) :
           /\ rets[j] \in {"False", "None", "Exception"}
                  => SetGave(calls[j][2], "False")
           /\ rets[j] = "BaseException"
                  => /\ ~ \E k \in 1..Len(setres) : setres[k].set = calls[j][2]
                     /\ result = "raised"

\* A request in which the first RuleSet failed on a rule that raised and the
\* second, of two rules, returned True.
C1_Witness ==
    /\ Len(setres) = 2
    /\ setres[1].res = "False"
    /\ \E j \in CallsIn(1) : rets[j] = "Exception"
    /\ setres[2].res = "True"
    /\ Len(map[request][2]) = 2

\* C2: a RuleSet invokes its rules in list order, each at most once; no rule
\* placed after one that denied, returned None or raised is invoked; and when
\* the RuleSet returns True every rule was invoked exactly once.
C2_RuleSetOrder ==
    /\ \A j \in 1..Len(calls) :
         LET g == calls[j][2]
             before == {h \in 1..(j - 1) : calls[h][2] = g}
         IN  /\ Configured
             /\ g \in 1..Len(map[request])
             /\ Cardinality(before) < Len(map[request][g])
             /\ calls[j] = map[request][g][Cardinality(before) + 1]
             /\ \A h \in before : rets[h] = "True"
    /\ \A k \in 1..Len(setres) :
         setres[k].res = "True" =>
             \A i \in 1..Len(map[request][setres[k].set]) :
                 Cardinality({j \in 1..Len(calls) :
                     calls[j] = map[request][setres[k].set][i]}) = 1

\* A finished request whose first RuleSet has two rules, the first of which
\* returned None: the second was never invoked.
C2_Witness ==
    /\ pc = "done"
    /\ Configured
    /\ Len(map[request]) >= 1
    /\ Len(map[request][1]) = 2
    /\ \E j \in 1..Len(calls) : calls[j] = map[request][1][1] /\ rets[j] = "None"
    /\ \A j \in 1..Len(calls) : calls[j] # map[request][1][2]

\* RuleSet g was entered: it returned, or one of its rules was invoked.
Evaluated(g) ==
    \/ \E k \in 1..Len(setres) : setres[k].set = g
    \/ CallsIn(g) # {}

\* The RuleSets are evaluated in list order, every rule invoked belongs to a
\* RuleSet all of whose predecessors returned False, the first RuleSet that
\* returns True ends the call with True, and False is returned exactly when
\* every RuleSet (if any) returned False.
TreeOrder ==
    /\ \A k \in 1..Len(setres) : setres[k].set = k
    /\ \A j \in 1..Len(calls) :
         \A g \in 1..(calls[j][2] - 1) : SetGave(g, "False")
    /\ \A k \in 1..Len(setres) :
         setres[k].res = "True" =>
             /\ k = Len(setres)
             /\ pc = "done"
             /\ result = "True"
             /\ \A j \in 1..Len(calls) : calls[j][2] <= k
    /\ (pc = "done" /\ Configured) =>
         /\ (result = "False") <=>
              /\ Len(setres) = Len(map[request])
              /\ \A k \in 1..Len(setres) : setres[k].res = "False"
         /\ (result = "True") <=>
              \E k \in 1..Len(setres) : setres[k].res = "True"

\* C3, as stated: RuleTree order and short-circuit as in TreeOrder, and a
\* RuleSet that failed because a rule raised (any exception) is followed by
\* the evaluation of the next RuleSet.
C3_AnyRaiseGoesOn ==
    /\ TreeOrder
    /\ \A j \in 1..Len(calls) :
         (/\ rets[j] \in {"Exception", "BaseException"}
          /\ calls[j][2] < Len(map[request])
          /\ pc = "done") => Evaluated(calls[j][2] + 1)

\* C3, amended: RuleTree order and short-circuit as in TreeOrder, and a
\* RuleSet that failed because a rule raised an exception derived from
\* Exception is followed by the evaluation of the next RuleSet; an exception
\* not derived from Exception ends the call at once.
C3_RuleTreeOrder ==
    /\ TreeOrder
    /\ \A j \in 1..Len(calls) :
         /\ (/\ rets[j] = "Exception"
             /\ calls[j][2] < Len(map[request])
             /\ pc = "done") => Evaluated(calls[j][2] + 1)
         /\ rets[j] = "BaseException" =>
              /\ j = Len(calls)
              /\ pc = "done"
              /\ ~ Evaluated(calls[j][2] + 1)

\* A request whose first RuleSet failed on a raising rule and whose second
\* RuleSet, with a rule of its own, approved, in a tree with no third.
C3_Witness ==
    /\ result = "True"
    /\ Len(setres) = 2
    /\ \E j \in CallsIn(1) : rets[j] = "Exception"
    /\ CallsIn(2) # {}
    /\ Len(map[request]) = 2

\* C4: the engine returns None exactly for a request type with no entry in
\* its map; for a configured type it returns the tree's boolean (False for an
\* empty tree), and rules of other types' trees are never invoked.
C4_NoneIffNoTree ==
    /\ (result = "None") <=> (pc = "done" /\ ~ Configured)
    /\ (pc = "done" /\ Configured /\ result # "raised") =>
         /\ result \in {"True", "False"}
         /\ (result = "True") <=>
              \E k \in 1..Len(setres) : setres[k].res = "True"
    /\ (pc = "done" /\ Configured /\ map[request] = <<>>) => result = "False"
    /\ \A j \in 1..Len(calls) : calls[j][1] = request

\* A request of a type configured with an empty tree, answered False, in an
\* engine that also has a non-empty tree for another type.
C4_Witness ==
    /\ pc = "done"
    /\ Configured
    /\ map[request] = <<>>
    /\ result = "False"
    /\ \E rt \in DOMAIN map : map[rt] # <<>>

\* C5, as stated: whatever the rules do, no exception escapes
\* RuleEngine.approve_request.
C5_NothingEscapes == result # "raised"

\* How far the call in progress has come: RuleSets passed, then rules passed.
Rank ==
    LET K == 3 + MaxRules
    IN  gi * K + (IF pc = "set" THEN 1 + ri ELSE 0)

\* A step of a call in progress ends it or raises Rank.
Advances == pc \in {"tree", "set"} => (pc' = "done" \/ Rank' > Rank)

\* C5, amended: the call always moves on to an end (each step raises Rank,
\* which the tree bounds), ends with True, False or None unless a rule raised
\* an exception not derived from Exception, and lets only such an exception
\* escape: one derived from Exception never reaches the caller.
C5_OnlyNonExceptionEscapes ==
    /\ [](pc \in {"idle", "tree", "set", "done"})
    /\ []((result = "raised") <=>
            (rets # <<>> /\ rets[Len(rets)] = "BaseException"))
    /\ [](pc = "done" =>
            /\ result \in {"True", "False", "None", "raised"}
            /\ (\A j \in 1..Len(rets) : rets[j] # "BaseException")
                   => result \in {"True", "False", "None"})
    /\ [](pc \in {"tree", "set"} =>
            /\ ENABLED Next
            /\ gi <= Len(map[request]) + 1
            /\ (pc = "set" => ri <= Len(map[request][gi]) + 1))
    /\ [][Advances]_vars

\* A finished request in which one rule returned None, another raised, and
\* the engine still answered with a value.
C5_Witness ==
    /\ pc = "done"
    /\ result = "False"
    /\ \E j \in 1..Len(rets) : rets[j] = "Exception"
    /\ \E j \in 1..Len(rets) : rets[j] = "None"

----------------------------------------------------------------------------
(* Properties of from_dict and to_dict, checked under BuildSpec *)

\* The rule_id the j-th entry of this load carries after inject_rule_id.
IdOf(j) == injected[j].after["rule_id"]

\* The digest of the j-th entry as inject_rule_id found it.
DigestOf(j) == Md5Hex(JsonDumps(injected[j].before))

\* C6: once from_dict has succeeded, the rule_id values of all entries of the
\* policy are pairwise distinct.
C6_RuleIdsDistinct ==
    bpc = "built" =>
        \A i, j \in 1..Len(injected) : i # j => IdOf(i) # IdOf(j)

\* The entry inject_rule_id is about to be called with.
CurEnt == info[ki].tree[bg].items[be].d

\* inject_rule_id takes a step on a dict.
InjectActs == bpc = "rset" /\ bpc' = "plugin"

\* inject_rule_id changes nothing but the entry, _seen and _rule_seq.
InjectFrame ==
    /\ rule_seq' = rule_seq + 1
    /\ UNCHANGED <<ki, bg, be, rule_map, ini, lst, engine, doc>>
    /\ \A i \in 1..Len(info) : \A g \in 1..Len(info[i].tree) :
         info[i].tree[g].type = "list" =>
           \A e \in 1..Len(info[i].tree[g].items) :
             <<i, g, e>> # <<ki, bg, be>> =>
               info'[i].tree[g].items[e] = info[i].tree[g].items[e]

\* C7, as stated: inject_rule_id leaves an entry that has a "rule_id" key as
\* it is, whatever the value under that key.
C7_AnyRuleIdUntouched ==
    [][(InjectActs /\ "rule_id" \in DOMAIN CurEnt) => info' = info]_vars

\* What inject_rule_id does to entries with and without a truthy rule_id.
InjectEffect ==
    InjectActs =>
        /\ InjectFrame
        /\ HasRuleId(CurEnt) =>
             /\ info' = info
             /\ seen'[CurEnt["rule_id"]] =
                  (IF CurEnt["rule_id"] \in DOMAIN seen
                     THEN seen[CurEnt["rule_id"]] ELSE 0) + 1
        /\ ~ HasRuleId(CurEnt) =>
             LET after == info'[ki].tree[bg].items[be].d IN
               /\ DOMAIN after = DOMAIN CurEnt \cup {"rule_id"}
               /\ \A k \in DOMAIN CurEnt \ {"rule_id"} : after[k] = CurEnt[k]
               /\ after["rule_id"] # ""

\* C7, amended: inject_rule_id never modifies an entry that carries a
\* non-empty rule_id: the entry is the same after the call and only the
\* generator's seen-count and sequence counter change; an entry whose rule_id
\* is empty is treated like one without the key: it is given a generated
\* rule_id, its other keys staying as they are.
C7_TruthyRuleIdUntouched == [][InjectEffect]_vars

\* inject_rule_id has been called on an entry with rule_id "x", which it left
\* alone, and on one with an empty rule_id, which it replaced.
C7_Witness ==
    /\ \E j \in 1..Len(injected) :
         /\ "rule_id" \in DOMAIN injected[j].before
         /\ injected[j].before["rule_id"] = "x"
         /\ injected[j].after = injected[j].before
    /\ \E j \in 1..Len(injected) :
         /\ "rule_id" \in DOMAIN injected[j].before
         /\ injected[j].before["rule_id"] = ""
         /\ injected[j].after # injected[j].before

\* Entries i < j of this load had the same content and no rule_id, and no
\* entry before i had that content.
FirstTwin(i, j) ==
    /\ i < j
    /\ "rule_id" \notin DOMAIN injected[i].before
    /\ injected[j].before = injected[i].before
    /\ \A h \in 1..(i - 1) : injected[h].before # injected[i].before

\* C8, as stated: of two entries with identical content and no rule_id, the
\* first gets the bare digest and the later one the digest, ".", and the
\* sequence counter (the number of entries processed so far in the load).
C8_FirstGetsBareDigest ==
    \A i, j \in 1..Len(injected) :
        FirstTwin(i, j) =>
            /\ IdOf(i) = DigestOf(i)
            /\ IdOf(j) = DigestOf(j) \o "." \o ToString(j)

\* C8, amended: an entry without a (non-empty) rule_id gets the bare digest of
\* its canonical form unless that digest is already the rule_id of an earlier
\* entry of the load (given explicitly or assigned), and then the digest, ".",
\* and the load-wide sequence counter, which counts every entry processed so
\* far; so of two identical entries without rule_id the later one always gets
\* digest.counter, the first gets the bare digest when no earlier entry
\* carries it, and the two identifiers differ.
C8_DigestThenSequence ==
    /\ \A j \in 1..Len(injected) :
         /\ injected[j].seq = j
         /\ ~ HasRuleId(injected[j].before) =>
              IdOf(j) = IF \E h \in 1..(j - 1) : IdOf(h) = DigestOf(j)
                          THEN DigestOf(j) \o "." \o ToString(j)
                          ELSE DigestOf(j)
    /\ \A i, j \in 1..Len(injected) :
         FirstTwin(i, j) =>
            /\ IdOf(j) = DigestOf(j) \o "." \o ToString(j)
            /\ IdOf(i) # IdOf(j)
            /\ (\A h \in 1..(i - 1) : IdOf(h) # DigestOf(i))
                  => IdOf(i) = DigestOf(i)

\* A load of three entries: one with the explicit rule_id "x", then two
\* identical ones without rule_id, which got the digest and digest.3.
C8_Witness ==
    /\ bpc = "built"
    /\ Len(injected) = 3
    /\ HasRuleId(injected[1].before)
    /\ FirstTwin(2, 3)
    /\ IdOf(2) = DigestOf(2)
    /\ IdOf(3) = DigestOf(3) \o ".3"

\* C9: from_dict on the to_dict output of a built engine succeeds and gives
\* an engine with the same request types, groups, rules and rule_ids in the
\* same order, whose to_dict output is the same document; no entry is given a
\* new rule_id on the way.
C9_RoundTrip ==
    load = 2 =>
        /\ bpc # "failed"
        /\ \A j \in 1..Len(injected) : injected[j].after = injected[j].before
        /\ bpc \in {"built", "dumped"} => engine = first.engine
        /\ bpc = "dumped" => doc = first.doc

\* The second engine has been serialized; its second rule carries the
\* disambiguated rule_id the first load assigned.
C9_Witness ==
    /\ load = 2
    /\ bpc = "dumped"
    /\ Len(injected) >= 2
    /\ IdOf(2) = SavedId \o ".2"
    /\ doc # <<>>

\* The document has a key that is no RequestType value, a group that is not
\* a list, an entry that is not a dict or has no "rule", or an entry naming a
\* plugin that is missing or no RulePlugin.
HasBadElement(d) ==
    \E i \in 1..Len(d) :
        \/ d[i].key \notin RequestType
        \/ \E g \in 1..Len(d[i].tree) :
             \/ d[i].tree[g].type # "list"
             \/ /\ d[i].tree[g].type = "list"
                /\ \E e \in 1..Len(d[i].tree[g].items) :
                     LET ent == d[i].tree[g].items[e] IN
                       \/ ent.type # "dict"
                       \/ /\ ent.type = "dict"
                          /\ \/ "rule" \notin DOMAIN ent.d
                             \/ /\ "rule" \in DOMAIN ent.d
                                /\ \/ ent.d["rule"] \notin DOMAIN Registry
                                   \/ /\ ent.d["rule"] \in DOMAIN Registry
                                      /\ Registry[ent.d["rule"]] # "RulePlugin"

\* C10: from_dict on a document with a bad element, wherever it is, never
\* returns an engine and goes on until it raises.
C10_BadDocumentRejected ==
    HasBadElement(info0) =>
        /\ bpc \notin {"built", "dumped"}
        /\ engine = <<>>
        /\ bpc # "failed" => ENABLED BuildNext

\* from_dict raised on the plugin "yo", which is no RulePlugin, after it had
\* stored a tree for an earlier request type and built a rule of this group.
C10_Witness ==
    /\ bpc = "failed"
    /\ rule_map # <<>>
    /\ lst # <<>>
    /\ ki \in 1..Len(info0)
    /\ bg \in 1..Len(info0[ki].tree)
    /\ info0[ki].tree[bg].type = "list"
    /\ be \in 2..Len(info0[ki].tree[bg].items)
    /\ info0[ki].tree[bg].items[be] = Dict([rule |-> "yo"])

----------------------------------------------------------------------------
(* Properties of clear_quota, check_quota and of what approve_request logs,
   checked under Spec *)

\* How often clear_quota was invoked on rule r during the call in progress.
ClearedCount(r) == Cardinality({j \in 1..Len(cleared) : cleared[j].rule = r})

ClearQuotaDone == qpc = "done" /\ qop = "clear_quota"

\* Where the loops of clear_quota reach rule r: its tree's place in the
\* order of map.values(), its RuleSet's place in the tree, its place in the
\* RuleSet.
QuotaRank(r) ==
    LET t == CHOOSE k \in 1..Len(qorder) : qorder[k] = r[1] IN
      (t * (MaxSets + 1) + r[2]) * (MaxRules + 1) + r[3]

C12_DefaultCheckQuotaTrue ==
    (qpc = "done" /\ qop = "check_quota") => qresult = "True"

\* C13 as claimed: no call on a built engine raises to its caller.
C13_BuiltEngineNeverRaises == result # "raised" /\ qresult # "raised"

\* C13: on a built engine, approve_request raises to its caller exactly when
\* a rule's approve_request raised an exception not derived from Exception
\* (one derived from Exception never gets out), clear_quota raises to its
\* caller exactly when a rule's clear_quota raised anything, and the default
\* check_quota does not raise.
C13_RaisesWhenNotCaught ==
    /\ (result = "raised") <=>
          (rets # <<>> /\ rets[Len(rets)] = "BaseException")
    /\ \A j \in 1..Len(rets) :
          rets[j] = "BaseException" => (j = Len(rets) /\ pc = "done")
    /\ (qresult = "raised") <=>
          (qrets # <<>> /\ qrets[Len(qrets)] \in {"Exception", "BaseException"})
    /\ \A j \in 1..Len(qrets) :
          qrets[j] # "None" => (j = Len(qrets) /\ ClearQuotaDone)
    /\ qop = "check_quota" => qresult # "raised"

\* clear_quota raised to its caller what the second rule's clear_quota
\* raised, an exception derived from Exception.
C13_Witness ==
    /\ ClearQuotaDone
    /\ qresult = "raised"
    /\ Len(qrets) >= 2
    /\ qrets[Len(qrets)] = "Exception"

\* The invocations, by place in calls, at or before j that a RuleSet logs.
LoggedUpTo(j) == {k \in 1..j : rets[k] \in {"None", "Exception"}}

\* C14 as claimed: every rule that returned None or raised has an error
\* record naming it.
C14_EveryRaiseLogged ==
    \A j \in 1..Len(calls) :
        rets[j] \in {"None", "Exception", "BaseException"} =>
            \E k \in 1..Len(log) : log[k].rule = calls[j]

\* C14: a rule that returns None or raises an exception derived from
\* Exception has an error record naming it by the time its RuleSet has
\* returned False; the records are those rules', in the order of the
\* invocations, and no record is there for a rule that returned True or
\* False, nor for one that raised an exception not derived from Exception
\* (its RuleSet does not return).
C14_OffenderLoggedBeforeFalse ==
    /\ Len(log) = Cardinality(LoggedUpTo(Len(calls)))
    /\ \A j \in LoggedUpTo(Len(calls)) :
         /\ log[Cardinality(LoggedUpTo(j))].rule = calls[j]
         /\ (rets[j] = "None") <=>
              (log[Cardinality(LoggedUpTo(j))].msg =
                   "unknown request type error in rule")
         /\ SetGave(calls[j][2], "False")
    /\ \A j \in 1..Len(calls) :
         rets[j] = "BaseException" => ~ \E res \in {"True", "False"} :
                                          SetGave(calls[j][2], res)

\* A rule returned True, the next None, and a rule of the second RuleSet
\* raised: two records, and the engine returned False.
C14_Witness ==
    /\ pc = "done"
    /\ result = "False"
    /\ rets = <<"True", "None", "Exception">>
    /\ Len(log) = 2

\* C15 as claimed: the call that returns None for a request type without a
\* tree emits an error record.
C15_EngineNoneLogged == (pc = "done" /\ result = "None") => log # <<>>

\* C15: every None that a rule returns is logged as an error by the RuleSet
\* that gets it, with the record for an unknown request type; the None that
\* RuleEngine.approve_request returns for a request type without a tree is
\* not: that call invokes no rule and emits no record.
C15_OnlyRuleNoneLogged ==
    /\ \A j \in 1..Len(calls) :
         rets[j] = "None" =>
            \E k \in 1..Len(log) :
                log[k] = [rule |-> calls[j],
                          msg |-> "unknown request type error in rule"]
    /\ (pc = "done" /\ result = "None") =>
         /\ request \notin DOMAIN map
         /\ calls = <<>>
         /\ log = <<>>

\* An engine with a tree for another request type returned None.
C15_Witness ==
    /\ pc = "done"
    /\ result = "None"
    /\ DOMAIN map # {}

----------------------------------------------------------------------------
(* More properties of from_dict, checked under BuildSpec *)

\* Where the entries of document d are: item, group, place in the group.
EntryPlaces(d) ==
    {p \in (1..Len(d)) \X (1..MaxNodes) \X (1..MaxNodes) :
        /\ p[2] <= Len(d[p[1]].tree)
        /\ d[p[1]].tree[p[2]].type = "list"
        /\ p[3] <= Len(d[p[1]].tree[p[2]].items)}

EntryAt(d, p) == d[p[1]].tree[p[2]].items[p[3]]

\* Place p comes after place q from left to right, top to bottom.
PlaceAfter(p, q) ==
    \/ p[1] > q[1]
    \/ p[1] = q[1] /\ p[2] > q[2]
    \/ p[1] = q[1] /\ p[2] = q[2] /\ p[3] > q[3]

\* C16 as claimed: when a RulePlugin constructor is about to run, every entry
\* of the whole document has its rule_id.
C16_AllAssignedBeforeConstruct ==
    bpc = "plugin" =>
        \A p \in EntryPlaces(info) :
            EntryAt(info, p).type = "dict" => HasRuleId(EntryAt(info, p).d)

\* C16: from_dict assigns and constructs entry by entry in one traversal from
\* left to right, top to bottom: when a constructor is about to run, the entry
\* it is given has its rule_id, the rule instances of the earlier entries of
\* its group are already constructed, one inject_rule_id call was made per
\* entry so far, and every later entry of the document is as the caller gave
\* it, one that lacked a rule_id lacking it still.
C16_AssignedJustBeforeConstruct ==
    bpc = "plugin" =>
        /\ HasRuleId(CurEnt)
        /\ Len(lst) = be - 1
        /\ Len(injected) = rule_seq
        /\ Len(injected) =
             Cardinality({p \in EntryPlaces(info) :
                             ~ PlaceAfter(p, <<ki, bg, be>>)})
        /\ \A p \in EntryPlaces(info) :
             PlaceAfter(p, <<ki, bg, be>>) => EntryAt(info, p) = EntryAt(info0, p)

\* The constructor is about to run on the second entry of a group, after the
\* first entry's, while a later entry still has no rule_id.
C16_Witness ==
    /\ bpc = "plugin"
    /\ Len(lst) = 1
    /\ \E p \in EntryPlaces(info) :
         /\ PlaceAfter(p, <<ki, bg, be>>)
         /\ EntryAt(info, p).type = "dict"
         /\ ~ HasRuleId(EntryAt(info, p).d)

\* C17 as claimed: once from_dict has returned or raised, every entry of the
\* caller's document has every key it had before, with the same value.
C17_EntriesKeepTheirKeys ==
    (load = 1 /\ bpc \in {"built", "failed"}) =>
        \A p \in EntryPlaces(info0) :
            EntryAt(info0, p).type = "dict" =>
                \A k \in DOMAIN EntryAt(info0, p).d :
                    /\ k \in DOMAIN EntryAt(info, p).d
                    /\ EntryAt(info, p).d[k] = EntryAt(info0, p).d[k]

\* The entry has no "rule_id" key and no other entry of the document it came
\* in has its content.
UniqueNoId(ent) ==
    /\ "rule_id" \notin DOMAIN ent
    /\ Cardinality({p \in EntryPlaces(info0) : EntryAt(info0, p) = Dict(ent)}) = 1

\* C19 as claimed: an entry without rule_id whose content no other entry of
\* the policy has is given the digest of its canonical form, wherever it is
\* and whatever is around it.
C19_UniqueEntryGetsDigest ==
    \A j \in 1..Len(injected) :
        UniqueNoId(injected[j].before) => IdOf(j) = DigestOf(j)

\* C19: an entry without rule_id whose content no other entry of the policy
\* has is given the digest of its canonical form, wherever it is, unless an
\* entry processed earlier in the load carries that digest as its rule_id:
\* then it is given the digest, ".", and the number of entries processed so
\* far.
C19_DigestUnlessCarried ==
    \A j \in 1..Len(injected) :
        UniqueNoId(injected[j].before) =>
            IdOf(j) =
              IF \E h \in 1..(j - 1) : IdOf(h) = DigestOf(j)
                THEN DigestOf(j) \o "." \o ToString(j)
                ELSE DigestOf(j)

\* Between two entries that have the same content, an entry that no other
\* is like was given its bare digest.
C19_Witness ==
    /\ bpc = "built"
    /\ Len(injected) = 3
    /\ injected[1].before = injected[3].before
    /\ UniqueNoId(injected[2].before)
    /\ IdOf(2) = DigestOf(2)

----------------------------------------------------------------------------
(* Two RuleEngine.from_dict calls on equal documents, in any interleaving *)

\* The two from_dict calls that are compared.
Loads == {"one", "two"}

\* The steps the loops of from_dict, RuleTree.from_list and
\* RuleSet.from_list go through on document d, in order: an item of
\* info.items(), a group of its tree definition, an entry of the group.
Traversal(d) ==
    Flatten([i \in 1..Len(d) |->
        <<[kind |-> "rtype", at |-> <<i, 0, 0>>]>> \o
        Flatten([g \in 1..Len(d[i].tree) |->
            <<[kind |-> "group", at |-> <<i, g, 0>>]>> \o
            (IF d[i].tree[g].type = "list"
               THEN [e \in 1..Len(d[i].tree[g].items) |->
                        [kind |-> "entry", at |-> <<i, g, e>>]]
               ELSE <<>>)])])

NewRgen_ModuleLevel(gens) ==
    IF gens = <<>>
      THEN [gens |-> <<[seen |-> EmptyDict, rule_seq |-> 0]>>, id |-> 1]
      ELSE [gens |-> gens, id |-> 1]

\* rgen = RuleIdGenerator(): a new object, with an empty _seen and _rule_seq
\* 0, for this call of from_dict.
NewRgen(gens) ==
    [gens |-> Append(gens, [seen |-> EmptyDict, rule_seq |-> 0]),
     id |-> Len(gens) + 1]

\* The entries of the documents the two calls are given: with and without
\* rule_id, with a rule_id that is another entry's digest, with a plugin
\* that is missing, and one that is no dict.
LoadEntries ==
    {Dict([rule |-> "a"]),
     Dict([rule |-> "a", rule_id |-> SavedId]),
     Dict([rule |-> "b", param |-> "1"]),
     Dict([rule |-> "missing"]),
     Str}

\* The documents of at most MaxNodes nodes with those entries.
IsLoadDoc(d) ==
    \E sh \in DocShapes :
        \E es \in [1..EntriesBefore(sh, Len(sh)) -> LoadEntries] :
            d = Document(sh, es)

\* Every call is given a copy of its own of the same document, and has the
\* steps of its loops ahead of it.
LoadInit ==
    /\ EvalIdle
    /\ PackIdle
    /\ QuotaIdle
    /\ BuildIdle
    /\ ConcIdle
    /\ IsLoadDoc(ldoc)
    /\ loads = [l \in Loads |->
                   [doc |-> ldoc, steps |-> Traversal(ldoc), state |-> "call",
                    pos |-> 0, rgen |-> 0, ids |-> <<>>]]
    /\ rgens = <<>>

\* from_dict is entered: rgen = RuleIdGenerator(); rule_map = {}
LoadFromDict(l) ==
    /\ loads[l].state = "call"
    /\ LET n == NewRgen(rgens) IN
         /\ rgens' = n.gens
         /\ loads' = [loads EXCEPT ![l].state = "running",
                                   ![l].pos = 1,
                                   ![l].rgen = n.id]
    /\ UNCHANGED ldoc
    /\ UNCHANGED <<evalvars, quotavars, buildvars, concvars, packvars>>

\* The call goes one step on: RequestType(rtype), the assert of
\* RuleSet.from_list, or inject_rule_id and RulePlugin.from_dict on an entry;
\* past the last step it returns the engine.
LoadStep(l) ==
    /\ loads[l].state = "running"
    /\ LET L == loads[l]
           steps == L.steps
       IN
         IF L.pos > Len(steps)
           THEN /\ loads' = [loads EXCEPT ![l].state = "built"]
                /\ UNCHANGED rgens
         ELSE LET step == steps[L.pos]
                  i == step.at[1]
                  g == step.at[2]
                  e == step.at[3]
              IN
           CASE step.kind = "rtype" ->
                  /\ loads' = IF L.doc[i].key \in RequestType
                                THEN [loads EXCEPT ![l].pos = @ + 1]
                                ELSE [loads EXCEPT ![l].state = "failed"]
                  /\ UNCHANGED rgens
             [] step.kind = "group" ->
                  /\ loads' = IF L.doc[i].tree[g].type = "list"
                                THEN [loads EXCEPT ![l].pos = @ + 1]
                                ELSE [loads EXCEPT ![l].state = "failed"]
                  /\ UNCHANGED rgens
             [] step.kind = "entry" ->
                  LET ent == L.doc[i].tree[g].items[e]
                      gen == rgens[L.rgen]
                  IN
                    IF ent.type # "dict"
                      THEN /\ rgens' = [rgens EXCEPT ![L.rgen].rule_seq = @ + 1]
                           /\ loads' = [loads EXCEPT ![l].state = "failed"]
                      ELSE LET r == InjectRuleId(ent.d, gen.seen, gen.rule_seq)
                               c == RulePluginFromDict(Dict(r.ent))
                           IN
                             /\ rgens' = [rgens EXCEPT
                                            ![L.rgen] = [seen |-> r.seen,
                                                         rule_seq |-> r.rule_seq]]
                             /\ loads' = [loads EXCEPT
                                   ![l].doc[i].tree[g].items[e] = c.data,
                                   ![l].ids = Append(@, r.ent["rule_id"]),
                                   ![l].pos = IF c.raised THEN @ ELSE @ + 1,
                                   ![l].state = IF c.raised THEN "failed" ELSE @]
    /\ UNCHANGED ldoc
    /\ UNCHANGED <<evalvars, quotavars, buildvars, concvars, packvars>>

LoadNext == \E l \in Loads : LoadFromDict(l) \/ LoadStep(l)

LoadSpec == LoadInit /\ [][LoadNext]_vars

----------------------------------------------------------------------------
(* Properties of the generator's scope, checked under LoadSpec *)

LoadEnded(l) == loads[l].state \in {"built", "failed"}

\* C18: two from_dict calls on equal documents give every corresponding
\* entry the same rule_id, however the two calls are interleaved and
\* whichever ran first: each call has a RuleIdGenerator of its own, whose
\* sequence counter and seen record start empty; once both have ended they
\* ended alike and left equal documents.
C18_SameIdsEveryLoad ==
    \A a \in Loads : \A b \in Loads :
        /\ \A k \in 1..Len(loads[a].ids) :
             k <= Len(loads[b].ids) => loads[a].ids[k] = loads[b].ids[k]
        /\ (a # b /\ loads[a].state # "call" /\ loads[b].state # "call") =>
             loads[a].rgen # loads[b].rgen
        /\ (LoadEnded(a) /\ LoadEnded(b)) =>
             /\ loads[a].state = loads[b].state
             /\ loads[a].doc = loads[b].doc
             /\ rgens[loads[a].rgen] = rgens[loads[b].rgen]

\* Both calls built an engine from a document of two entries of the same
\* content, and both gave the second the digest with the sequence number 2.
C18_Witness ==
    /\ \A l \in Loads :
         /\ loads[l].state = "built"
         /\ Len(loads[l].ids) = 2
         /\ loads[l].ids[1] = SavedId
         /\ loads[l].ids[2] = SavedId \o ".2"

----------------------------------------------------------------------------
(* One engine, callers that use it at the same time *)

\* The callers; two are enough for one call to get in the way of another.
Callers == {"c1", "c2"}

\* The engines the callers may share: those of RuleMaps with fewer than
\* MaxRules rules in all.
ConcMaps == {m \in RuleMaps : Cardinality(AllRules(m)) < MaxRules}

\* A caller that is in no call.
NoCall ==
    [op |-> "none", rt |-> "none", pc |-> "idle", gi |-> 0, ri |-> 0,
     order |-> <<>>, qi |-> 0, result |-> "pending"]

ForNext_Pop(xs, i) == [item |-> Head(xs), lst |-> Tail(xs)]

\* `for x in xs`, at the i-th pass: x is xs[i]; the list is read, not
\* changed.
ForNext(xs, i) == [item |-> xs[i], lst |-> xs]

\* The rules keep no state: what a rule's approve_request does is the same
\* at each invocation.
ConcInit ==
    /\ EvalIdle
    /\ PackIdle
    /\ QuotaIdle
    /\ BuildIdle
    /\ LoadIdle
    /\ cmap \in ConcMaps
    /\ behave \in [AllRules(cmap) -> Outcome]
    /\ callers = [c \in Callers |-> NoCall]

\* Caller c calls RuleEngine.approve_request with a request of type rt.
CallApprove(c, rt) ==
    /\ callers[c].pc = "idle"
    /\ callers' = [callers EXCEPT ![c] =
          IF rt \in DOMAIN cmap
            THEN [NoCall EXCEPT !.op = "approve_request", !.rt = rt,
                                !.pc = "tree", !.gi = 1]
            ELSE [NoCall EXCEPT !.op = "approve_request", !.rt = rt,
                                !.pc = "done", !.result = "None"]]
    /\ UNCHANGED <<cmap, behave>>
    /\ UNCHANGED <<evalvars, quotavars, buildvars, loadvars, packvars>>

\* RuleTree.approve_request in caller c: `for rset in self` reaches the next
\* RuleSet, or the loop ends and the tree returns False.
CallerTree(c) ==
    /\ callers[c].pc = "tree"
    /\ LET C == callers[c] IN
         IF C.gi <= Len(cmap[C.rt])
           THEN /\ cmap' = [cmap EXCEPT ![C.rt] = ForNext(@, C.gi).lst]
                /\ callers' = [callers EXCEPT ![c].pc = "set", ![c].ri = 1]
           ELSE /\ callers' = [callers EXCEPT ![c].pc = "done",
                                              ![c].result = "False"]
                /\ UNCHANGED cmap
    /\ UNCHANGED behave
    /\ UNCHANGED <<evalvars, quotavars, buildvars, loadvars, packvars>>

\* RuleSet.approve_request in caller c: one pass of `for rule in self`, or
\* the loop ends and the RuleSet returns True, which the tree returns.
CallerRule(c) ==
    /\ callers[c].pc = "set"
    /\ LET C == callers[c]
           rset == cmap[C.rt][C.gi]
       IN
         IF C.ri <= Len(rset)
           THEN LET after == AfterRule(behave[rset[C.ri]]) IN
                  callers' = [callers EXCEPT ![c] =
                     CASE after = "next rule" -> [C EXCEPT !.ri = @ + 1]
                       [] after = "return False" ->
                            IF TreeReturns("False")
                              THEN [C EXCEPT !.pc = "done", !.result = "True"]
                              ELSE [C EXCEPT !.pc = "tree", !.gi = @ + 1]
                       [] after = "raise" ->
                            [C EXCEPT !.pc = "done", !.result = "raised"]]
           ELSE callers' = [callers EXCEPT ![c] =
                     IF TreeReturns("True")
                       THEN [C EXCEPT !.pc = "done", !.result = "True"]
                       ELSE [C EXCEPT !.pc = "tree", !.gi = @ + 1]]
    /\ UNCHANGED <<cmap, behave>>
    /\ UNCHANGED <<evalvars, quotavars, buildvars, loadvars, packvars>>

\* Caller c calls RuleEngine.clear_quota.
CallClear(c) ==
    /\ callers[c].pc = "idle"
    /\ \E order \in Orders(cmap) :
         callers' = [callers EXCEPT ![c] =
             [NoCall EXCEPT !.op = "clear_quota", !.pc = "clear",
                            !.order = order]]
    /\ UNCHANGED <<cmap, behave>>
    /\ UNCHANGED <<evalvars, quotavars, buildvars, loadvars, packvars>>

\* clear_quota in caller c: rule.clear_quota(profile) on the next rule, the
\* rule doing o, or the loops end.
CallerClear(c, o) ==
    /\ callers[c].pc = "clear"
    /\ LET C == callers[c] IN
         callers' = [callers EXCEPT ![c] =
            IF C.qi < Len(RulesInOrder(cmap, C.order))
              THEN IF ClearPropagates(o)
                     THEN [C EXCEPT !.qi = @ + 1, !.pc = "done",
                                    !.result = "raised"]
                     ELSE [C EXCEPT !.qi = @ + 1]
              ELSE [C EXCEPT !.pc = "done", !.result = "None"]]
    /\ UNCHANGED <<cmap, behave>>
    /\ UNCHANGED <<evalvars, quotavars, buildvars, loadvars, packvars>>

\* Caller c has its answer.
CallerReturn(c) ==
    /\ callers[c].pc = "done"
    /\ callers' = [callers EXCEPT ![c] = NoCall]
    /\ UNCHANGED <<cmap, behave>>
    /\ UNCHANGED <<evalvars, quotavars, buildvars, loadvars, packvars>>

ConcNext ==
    \E c \in Callers :
        \/ \E rt \in RequestType : CallApprove(c, rt)
        \/ CallerTree(c)
        \/ CallerRule(c)
        \/ CallClear(c)
        \/ \E o \in QuotaOutcome : CallerClear(c, o)
        \/ CallerReturn(c)

ConcSpec == ConcInit /\ [][ConcNext]_vars

----------------------------------------------------------------------------
(* Properties of concurrent use, checked under ConcSpec *)

\* What RuleSet rs gives when it is evaluated alone: the first rule that
\* does not return True decides.
SetAlone(rs) ==
    LET bad == {i \in 1..Len(rs) : behave[rs[i]] # "True"} IN
      IF bad = {} THEN "True"
      ELSE LET f == CHOOSE i \in bad : \A j \in bad : i <= j IN
             IF behave[rs[f]] = "BaseException" THEN "raised" ELSE "False"

\* What the engine gives for a request of type rt when the call runs alone.
VerdictAlone(rt) ==
    IF rt \notin DOMAIN cmap THEN "None"
    ELSE LET tree == cmap[rt]
             ends == {g \in 1..Len(tree) : SetAlone(tree[g]) # "False"}
         IN  IF ends = {} THEN "False"
             ELSE SetAlone(tree[CHOOSE g \in ends : \A h \in ends : g <= h])

VerdictsAsAlone ==
    \A c \in Callers :
        (callers[c].op = "approve_request" /\ callers[c].pc = "done") =>
            callers[c].result = VerdictAlone(callers[c].rt)

\* C20: no step of any approve_request or clear_quota call, of any caller
\* and in any interleaving, changes the engine's map, a RuleTree or a
\* RuleSet, and with rules that keep no state every approve_request gives
\* its caller what the call gives when it runs alone.
C20_EngineReadOnly == [][cmap' = cmap]_vars /\ []VerdictsAsAlone

\* One caller was given True while the other is inside a RuleSet of the same
\* tree, and both have been through the first RuleSet.
C20_Witness ==
    /\ callers["c1"].op = "approve_request"
    /\ callers["c1"].pc = "done"
    /\ callers["c1"].result = "True"
    /\ callers["c2"].op = "approve_request"
    /\ callers["c2"].rt = callers["c1"].rt
    /\ callers["c2"].pc = "set"
    /\ callers["c2"].gi = 2

----------------------------------------------------------------------------
(* Packager.unpack_plugin (atakama/packager.py)                            *)
(*                                                                         *)
(* PackSpec : one unpack_plugin call on a package file, step by step.      *)
(*                                                                         *)
(* The package file is modelled by what the call can find out about it:    *)
(* whether ZipFile opens it, whether it has a "cert" entry and whether     *)
(* that certificate passes validate_usage, and its other entries in        *)
(* infolist order, each with its extension, whether the entry named        *)
(* <filename>.sig is there and verifies for it, and whether the entry is   *)
(* itself a zip archive.  shutil.rmtree and the extraction of an entry     *)
(* that is there are taken to succeed.                                     *)

\* a package entry: ext of its filename, its <filename>.sig, ZipFile opens it
ZipEntries ==
    [ext : {"whl"}, sig : {"absent", "good", "bad"}, wzip : BOOLEAN]
        \cup {[ext |-> "other", sig |-> "absent", wzip |-> FALSE]}

RECURSIVE SeqsUpTo(_, _)
SeqsUpTo(S, n) ==
    IF n = 0 THEN {<<>>}
    ELSE LET shorter == SeqsUpTo(S, n - 1)
         IN  shorter \cup {Append(q, x) : q \in shorter, x \in S}

Packages ==
    [zip : {TRUE}, cert : {"absent", "valid", "invalid"},
     infolist : SeqsUpTo(ZipEntries, MaxEntries)]
        \cup {[zip |-> FALSE, cert |-> "absent", infolist |-> <<>>]}

EndsWithWhl(ent) == ent.ext = "whl"

\* wheels, as the first loop of unpack_plugin collects it
Wheels(z) == SelectSeq(z.infolist, EndsWithWhl)

\* verify_certificate returns (TRUE) or validate_usage raises (FALSE)
VerifyCertificate(crt) == crt = "valid"

VerifySignature_AnySignature(crt, whl, sig) == sig # "absent"

\* verify_signature returns (TRUE) or rsa_pkcs1v15_verify raises (FALSE)
VerifySignature(crt, whl, sig) == sig = "good"

PackInit ==
    /\ EvalIdle
    /\ QuotaIdle
    /\ BuildIdle
    /\ LoadIdle
    /\ ConcIdle
    /\ path \in Packages
    /\ self_signed \in BOOLEAN
    /\ upc = "call"
    /\ wi = 0
    /\ tmpdir = "none"
    /\ dest_dir = {}
    /\ checks = [cert |-> FALSE, sigs |-> {}]
    /\ uresult = "pending"

\* with ZipFile(path) as zip, the wheels loop, tempfile.mkdtemp
UnpackPlugin ==
    /\ upc = "call"
    /\ IF path.zip
         THEN /\ tmpdir' = "exists"
              /\ upc' = "cert"
              /\ UNCHANGED uresult
         ELSE /\ upc' = "done"
              /\ uresult' = "BadZipFile"
              /\ UNCHANGED tmpdir
    /\ UNCHANGED <<path, self_signed, wi, dest_dir, checks>>
    /\ UNCHANGED <<evalvars, quotavars, buildvars, loadvars, concvars>>

\* crt = zip.getinfo("cert"); crt = zip.extract(crt, tmpdir)
ExtractCert ==
    /\ upc = "cert"
    /\ IF path.cert = "absent"
         THEN /\ upc' = "finally"
              /\ uresult' = "KeyError"
         ELSE /\ upc' = "verify_certificate"
              /\ UNCHANGED uresult
    /\ UNCHANGED <<path, self_signed, wi, tmpdir, dest_dir, checks>>
    /\ UNCHANGED <<evalvars, quotavars, buildvars, loadvars, concvars>>

\* if not self_signed: cls.verify_certificate(crt)
CheckCertificate ==
    /\ upc = "verify_certificate"
    /\ IF self_signed
         THEN /\ upc' = "for"
              /\ UNCHANGED <<checks, uresult>>
         ELSE IF VerifyCertificate(path.cert)
         THEN /\ upc' = "for"
              /\ checks' = [checks EXCEPT !.cert = TRUE]
              /\ UNCHANGED uresult
         ELSE /\ upc' = "finally"
              /\ uresult' = "ValidationError"
              /\ UNCHANGED checks
    /\ UNCHANGED <<path, self_signed, wi, tmpdir, dest_dir>>
    /\ UNCHANGED <<evalvars, quotavars, buildvars, loadvars, concvars>>

\* for whl in wheels: the two zip.extract calls of the next wheel
ExtractWheel ==
    /\ upc = "for"
    /\ wi < Len(Wheels(path))
    /\ wi' = wi + 1
    /\ IF Wheels(path)[wi + 1].sig = "absent"
         THEN /\ upc' = "finally"
              /\ uresult' = "KeyError"
         ELSE /\ upc' = "verify_signature"
              /\ UNCHANGED uresult
    /\ UNCHANGED <<path, self_signed, tmpdir, dest_dir, checks>>
    /\ UNCHANGED <<evalvars, quotavars, buildvars, loadvars, concvars>>

\* cls.verify_signature(crt, whl, sig)
CheckSignature ==
    /\ upc = "verify_signature"
    /\ LET whl == Wheels(path)[wi]
       IN  IF VerifySignature(path.cert, whl, whl.sig)
           THEN /\ upc' = "extractall"
                /\ checks' = [checks EXCEPT !.sigs = @ \cup {wi}]
                /\ UNCHANGED uresult
           ELSE /\ upc' = "finally"
                /\ uresult' = "SignatureError"
                /\ UNCHANGED checks
    /\ UNCHANGED <<path, self_signed, wi, tmpdir, dest_dir>>
    /\ UNCHANGED <<evalvars, quotavars, buildvars, loadvars, concvars>>

\* with ZipFile(whl) as wzip: wzip.extractall(dest_dir)
ExtractAll ==
    /\ upc = "extractall"
    /\ IF Wheels(path)[wi].wzip
         THEN /\ upc' = "for"
              /\ dest_dir' = dest_dir \cup {wi}
              /\ UNCHANGED uresult
         ELSE /\ upc' = "finally"
              /\ uresult' = "BadZipFile"
              /\ UNCHANGED dest_dir
    /\ UNCHANGED <<path, self_signed, wi, tmpdir, checks>>
    /\ UNCHANGED <<evalvars, quotavars, buildvars, loadvars, concvars>>

\* the wheels loop has no wheel left
WheelsDone ==
    /\ upc = "for"
    /\ wi = Len(Wheels(path))
    /\ upc' = "finally"
    /\ UNCHANGED <<path, self_signed, wi, tmpdir, dest_dir, checks, uresult>>
    /\ UNCHANGED <<evalvars, quotavars, buildvars, loadvars, concvars>>

\* finally: shutil.rmtree(tmpdir); then the call returns None or raises on
Finally ==
    /\ upc = "finally"
    /\ tmpdir' = "removed"
    /\ upc' = "done"
    /\ uresult' = IF uresult = "pending" THEN "None" ELSE uresult
    /\ UNCHANGED <<path, self_signed, wi, dest_dir, checks>>
    /\ UNCHANGED <<evalvars, quotavars, buildvars, loadvars, concvars>>

PackNext ==
    \/ UnpackPlugin
    \/ ExtractCert
    \/ CheckCertificate
    \/ ExtractWheel
    \/ CheckSignature
    \/ ExtractAll
    \/ WheelsDone
    \/ Finally

PackSpec == PackInit /\ [][PackNext]_vars

----------------------------------------------------------------------------
(* Claims about unpack_plugin *)

\* the certificate check of the call in progress cannot succeed
CertCheckFails ==
    \/ path.cert = "absent"
    \/ ~self_signed /\ ~VerifyCertificate(path.cert)

\* the signature check of the first wheel cannot succeed
FirstSignatureFails ==
    /\ Len(Wheels(path)) > 0
    /\ Wheels(path)[1].sig # "good"

\* C21: a wheel's contents are in dest_dir only if verify_signature has
\* returned for that wheel, whose <filename>.sig verifies it against the
\* "cert" entry, and, unless self_signed is set, verify_certificate has
\* returned for a certificate that is valid; if the certificate check or the
\* first wheel's signature check fails nothing is in dest_dir; and once the
\* call has returned or raised, the directory mkdtemp made is gone.
C21_WrittenOnlyAfterVerified ==
    /\ \A i \in dest_dir :
          /\ i \in checks.sigs
          /\ Wheels(path)[i].sig = "good"
          /\ path.cert # "absent"
          /\ ~self_signed => checks.cert /\ path.cert = "valid"
    /\ CertCheckFails \/ FirstSignatureFails => dest_dir = {}
    /\ upc = "done" => tmpdir # "exists"

\* the call wrote the first wheel after both checks, then raised on the
\* second wheel's signature, and removed the temporary directory
C21_Witness ==
    /\ upc = "done"
    /\ ~self_signed
    /\ uresult = "SignatureError"
    /\ dest_dir = {1}
    /\ checks = [cert |-> TRUE, sigs |-> {1}]
    /\ wi = 2
    /\ tmpdir = "removed"

====
